---- MODULE Spec2Model ----
(***************************************************************************)
(* Model of the request-orchestration router of tiny-mixtape               *)
(* (server/router: search, getRecommendations, getPlaylists,               *)
(* createPlaylist) together with the collaborators it drives: the upstream *)
(* REST API (an environment that answers each request with a success or an *)
(* error body), the local playlist store, and the sequential batch fetcher;*)
(* and of the listing page (pages/mixtapes) that pages through             *)
(* getPlaylists and renders what it has loaded.                            *)
(*                                                                         *)
(* Every request to the upstream service or to the store is appended to   *)
(* the history variable wire when it is issued, and its answer is recorded *)
(* there when it arrives, so that properties can be stated over what went  *)
(* over the network rather than over the handler's own locals.             *)
(***************************************************************************)
EXTENDS Integers, Sequences, FiniteSets, TLC

VARIABLES
    op,       \* the procedure being served
    pc,       \* position of its resolve function
    input,    \* the validated input object
    session,  \* ctx.session.user.id
    store,    \* the prisma playlist table, in creation order
    upstream, \* ids of the playlists that exist on the upstream service
    wire,     \* history: every request in the order issued, with its answer
    sf,       \* the running sequentialFetch calls, by instance
    loc,      \* locals of the resolve function
    result,   \* what the procedure returned or threw
    ui        \* the listing page: the pages it has loaded and what it shows

vars == <<op, pc, input, session, store, upstream, wire, sf, loc, result, ui>>

----------------------------------------------------------------------------
(* Bounds *)

MaxUris == 201        \* longest uris list given to createPlaylist
MaxStore == 1         \* records already in the store when createPlaylist runs
MaxRecords == 3       \* records in the store when getPlaylists runs
MaxTracks == 101      \* tracks of the longest upstream playlist
MaxQueryLen == 3      \* longest search query
MaxItems == 2         \* most tracks in a search or recommendation response
MaxSeeds == 6         \* longest trackSeeds list given to getRecommendations
MaxListed == 2        \* records in the store the listing page pages through

(* Program constants *)

MAX_ITEMS_PER_REQUEST == 100

----------------------------------------------------------------------------
(* Small value sets the inputs and the environment draw from *)

Users == {"u1", "u2"}
ErrorStatuses == {401, 429, 418}
ErrorMessages == {"m"}
Names == {"mix"}

Min(a, b) == IF a < b THEN a ELSE b

None == [none |-> TRUE]

\* the listing page before any page has arrived
NoPages == [pages |-> <<>>, list |-> <<>>]

----------------------------------------------------------------------------
(* Bodies the upstream service answers with *)

ErrorBody(status, message) == [error |-> [status |-> status, message |-> message]]

ErrorBodies == {ErrorBody(s, m) : s \in ErrorStatuses, m \in ErrorMessages}

\* `res.error` is truthy
HasError(json) == "error" \in DOMAIN json

\* `${json.error.status}! ${json.error.message}`
ErrorText(json) == <<json.error.status, "! ", json.error.message>>

----------------------------------------------------------------------------
(* utils/array range: start, start+step, ... up to and including end *)

range(start, end, step) ==
    IF end < start THEN <<>>
    ELSE [k \in 1..((end - start) \div step + 1) |-> start + (k - 1) * step]

\* Array.prototype.slice(from, to) on a 0-based array held as a 1-based sequence
slice(arr, from, to) == SubSeq(arr, from + 1, Min(to, Len(arr)))

\* Array.prototype.map
Map(arr, F(_)) == [k \in 1..Len(arr) |-> F(arr[k])]

----------------------------------------------------------------------------
(* The fixed status -> application-error-kind table, and its use *)

TRPC_ERROR_CODE_KEY_BY_HTTP_STATUS ==
    (401 :> "PERMISSION_DENIED") @@ (403 :> "PERMISSION_DENIED") @@ (404 :> "NOT_FOUND")
    @@ (429 :> "RATE_LIMITED") @@ (500 :> "UPSTREAM_UNAVAILABLE")
    @@ (502 :> "UPSTREAM_UNAVAILABLE") @@ (503 :> "UPSTREAM_UNAVAILABLE")

\* mutant: the table is not consulted
ErrorCode_NoTable(status) == "INTERNAL_SERVER_ERROR"

\* TRPC_ERROR_CODE_KEY_BY_HTTP_STATUS.get(status) ?? "INTERNAL_SERVER_ERROR"
ErrorCode(status) ==
    IF status \in DOMAIN TRPC_ERROR_CODE_KEY_BY_HTTP_STATUS
    THEN TRPC_ERROR_CODE_KEY_BY_HTTP_STATUS[status]
    ELSE "INTERNAL_SERVER_ERROR"

\* new trpc.TRPCError({code, message}) for an upstream error body; a message
\* is the sequence of the parts of its template string, each a tuple
UpstreamError(json) ==
    [kind |-> "error", code |-> ErrorCode(json.error.status),
     message |-> <<ErrorText(json)>>, cause |-> <<>>]

\* what the procedure call fails with when zod rejects the input
BadRequest ==
    [kind |-> "error", code |-> "BAD_REQUEST", message |-> <<<<"invalid input">>>>,
     cause |-> <<>>]

----------------------------------------------------------------------------
(* The network: a request is appended to wire when issued, with no answer  *)
(* yet; the answer is filled in when it arrives.                           *)

Request(kind, arg) == [kind |-> kind, arg |-> arg, res |-> None]

Answer(w, i, body) == [w EXCEPT ![i].res = body]

\* the request is in flight
Pending(e) == "none" \in DOMAIN e.res

InFlight(w) == {i \in 1..Len(w) : Pending(w[i])}

\* the requests of one kind issued so far, in the order they were issued
RequestsOf(w, kind) == SelectSeq(w, LAMBDA e : e.kind = kind)

\* the bodies received so far for requests of one kind, in the requests' order
ResponsesTo(w, kind) ==
    LET res == SelectSeq(w, LAMBDA e : e.kind = kind /\ ~Pending(e))
    IN  [k \in 1..Len(res) |-> res[k].res]

----------------------------------------------------------------------------
(* The local store (prisma playlist table)                                 *)

\* a row: its own id, the upstream playlist id, the creator, the creation time
PlaylistRecord(id, spotifyId, createdBy) ==
    [id |-> id, spotifyId |-> spotifyId, createdBy |-> createdBy, createdAt |-> id]

\* the upstream id of the playlist behind the n-th row of an initial store
SpotifyIdOf(n) == 10 + n

\* stores of exactly n records, in creation order, upstream ids unique
RECURSIVE StoresOfSize(_)
StoresOfSize(n) ==
    IF n = 0 THEN {<<>>}
    ELSE {Append(s, PlaylistRecord(n, SpotifyIdOf(n), u)) :
            s \in StoresOfSize(n - 1), u \in Users}

Stores(max) == UNION {StoresOfSize(n) : n \in 0..max}

SpotifyIds(s) == {s[i].spotifyId : i \in 1..Len(s)}

\* outcomes of prisma.playlist.create: stored, rejected with a
\* PrismaClientKnownRequestError, or failed with any other error
InsertOutcomes == {[outcome |-> o] : o \in {"ok", "known", "other"}}

----------------------------------------------------------------------------
(* Numbers. A number in an upstream JSON body is held as an integer count  *)
(* of thousandths (0.567 is 567); a number the handlers compute is an      *)
(* exact fraction n/d, d > 0, compared with QEq.                           *)

RECURSIVE GCD(_, _)
GCD(a, b) == IF b = 0 THEN a ELSE GCD(b, a % b)

\* n/d in lowest terms
Q(n, d) == LET g == GCD(IF n < 0 THEN -n ELSE n, d) IN [n |-> n \div g, d |-> d \div g]

QEq(x, y) == x.n * y.d = y.n * x.d

\* the number a JSON decimal stands for
Num(milli) == [n |-> milli, d |-> 1000]

QAdd(x, y) ==
    IF x.d = y.d THEN [n |-> x.n + y.n, d |-> x.d]
    ELSE LET l == (x.d \div GCD(x.d, y.d)) * y.d
         IN  [n |-> x.n * (l \div x.d) + y.n * (l \div y.d), d |-> l]

\* x * k and x / k for an integer k
QTimes(x, k) == [n |-> x.n * k, d |-> x.d]
QOver(x, k) == Q(x.n, x.d * k)

\* Math.floor
Floor(x) == [n |-> x.n \div x.d, d |-> 1]

\* the sum of xs[lo..hi], lo <= hi, added up by halves
RECURSIVE QSumRange(_, _, _)
QSumRange(xs, lo, hi) ==
    IF lo = hi THEN xs[lo]
    ELSE LET mid == (lo + hi) \div 2
         IN  QAdd(QSumRange(xs, lo, mid), QSumRange(xs, mid + 1, hi))

\* the sum of a non-empty list
QSum(xs) == QSumRange(xs, 1, Len(xs))

----------------------------------------------------------------------------
(* Audio features                                                          *)

\* the upstream service's audio features of a track
FeaturesOf(id) ==
    [danceability |-> (id * 37) % 1001, energy |-> (id * 91) % 1001,
     tempo |-> 60000 + ((id * 7919) % 120001), valence |-> (id * 13) % 1001]

\* new-playlist-state INITIAL_AUDIO_FEATURES: the all-zero sentinel
INITIAL_AUDIO_FEATURES == [danceability |-> 0, energy |-> 0, tempo |-> 0, valence |-> 0]

\* utils/audio-features calculateAverageAudioFeatures: the element-wise mean,
\* and the all-zero sentinel for the empty list
calculateAverageAudioFeatures(list) ==
    IF list = <<>>
    THEN [danceability |-> Q(0, 1), energy |-> Q(0, 1), tempo |-> Q(0, 1), valence |-> Q(0, 1)]
    ELSE [danceability |-> QOver(QSum([k \in 1..Len(list) |-> list[k].danceability]), Len(list)),
          energy |-> QOver(QSum([k \in 1..Len(list) |-> list[k].energy]), Len(list)),
          tempo |-> QOver(QSum([k \in 1..Len(list) |-> list[k].tempo]), Len(list)),
          valence |-> QOver(QSum([k \in 1..Len(list) |-> list[k].valence]), Len(list))]

\* the error an audio-features lookup may be answered with
AudioFeaturesErrors == {ErrorBody(429, "m")}

\* GET /audio-features?ids=...: one record per requested id, in order
AudioFeaturesBodies(ids) ==
    {[audio_features |-> [k \in 1..Len(ids) |-> FeaturesOf(ids[k])]]} \cup AudioFeaturesErrors

----------------------------------------------------------------------------
(* utils/fetch sequentialFetch: one request at a time, in order, every     *)
(* parsed body collected whatever its shape.                               *)

\* the call itself: runs up to the first await, i.e. issues the first request
sequentialFetchStart(cfgs, w) ==
    IF cfgs = <<>>
    THEN [inst |-> [configs |-> cfgs, results |-> <<>>, req |-> 0], wire |-> w]
    ELSE [inst |-> [configs |-> cfgs, results |-> <<>>, req |-> Len(w) + 1],
          wire |-> Append(w, Request(cfgs[1].kind, cfgs[1].arg))]

\* mutant: the loop ends at the first error body
sequentialFetchResume_FailFast(inst, body, w) ==
    LET w1 == Answer(w, inst.req, body)
        results == Append(inst.results, body)
        k == Len(results) + 1
    IN  IF k > Len(inst.configs) \/ HasError(body)
        THEN [inst |-> [inst EXCEPT !.results = results, !.req = 0], wire |-> w1]
        ELSE [inst |-> [inst EXCEPT !.results = results, !.req = Len(w1) + 1],
              wire |-> Append(w1, Request(inst.configs[k].kind, inst.configs[k].arg))]

\* the awaited response arrives: push it, then issue the next request if any
sequentialFetchResume(inst, body, w) ==
    LET w1 == Answer(w, inst.req, body)
        results == Append(inst.results, body)
        k == Len(results) + 1
    IN  IF k > Len(inst.configs)
        THEN [inst |-> [inst EXCEPT !.results = results, !.req = 0], wire |-> w1]
        ELSE [inst |-> [inst EXCEPT !.results = results, !.req = Len(w1) + 1],
              wire |-> Append(w1, Request(inst.configs[k].kind, inst.configs[k].arg))]

\* the promise returned by sequentialFetch has resolved
sequentialFetchDone(inst) == inst.req = 0

\* bodies the upstream service can answer a batch request with
BatchBodies(request) ==
    IF request.kind = "addTracks" THEN {[snapshot_id |-> "s"]} \cup ErrorBodies
    ELSE AudioFeaturesBodies(request.arg.ids)

SequentialFetchReceive(j) ==
    /\ pc \in {"awaitAddTracks", "awaitAudioFeatures", "done"}
    /\ j \in DOMAIN sf
    /\ ~sequentialFetchDone(sf[j])
    /\ \E body \in BatchBodies(wire[sf[j].req]) :
          LET next == sequentialFetchResume(sf[j], body, wire)
          IN  /\ sf' = [sf EXCEPT ![j] = next.inst]
              /\ wire' = next.wire
    /\ UNCHANGED <<ui, op, pc, input, session, store, upstream, loc, result>>

----------------------------------------------------------------------------
(* mutation createPlaylist                                                 *)

playlistUrlOf(playlistId) == <<"https://open.spotify.com/playlist/", playlistId>>

\* uris lists: all distinct, or repeating the same few uris
UriLists ==
    {[i \in 1..n |-> i] : n \in 0..MaxUris}
    \cup {[i \in 1..n |-> i % 3] : n \in 0..MaxUris}

CreatePlaylistInputs ==
    {[uris |-> uris, name |-> name, isPublic |-> TRUE, description |-> "d"] :
        uris \in UriLists, name \in Names}

InitCreatePlaylist ==
    /\ op = "createPlaylist"
    /\ pc = "input"
    /\ input \in CreatePlaylistInputs
    /\ session \in Users
    /\ store \in Stores(MaxStore)
    /\ upstream = SpotifyIds(store)
    /\ wire = <<>>
    /\ sf = <<>>
    /\ loc = [createPlaylistRes |-> None, playlistId |-> None, playlistUrl |-> None,
              addTracksToPlaylistJson |-> <<>>, addTracksToPlaylistErrors |-> <<>>]
    /\ result = None
    /\ ui = NoPages

\* mutant: the uris list may be empty
CreatePlaylistInputValid_NoMin(in) == Len(in.uris) >= 0

\* input: z.object({uris: z.array(z.string()).min(1), ...})
CreatePlaylistInputValid(in)== Len(in.uris) >= 1

CreatePlaylistValidate ==
    /\ op = "createPlaylist" /\ pc = "input"
    /\ IF CreatePlaylistInputValid(input)
       THEN pc' = "start" /\ UNCHANGED result
       ELSE pc' = "done" /\ result' = BadRequest
    /\ UNCHANGED <<ui, op, input, session, store, upstream, wire, sf, loc>>

\* POST /users/{id}/playlists
CreatePlaylistFetch ==
    /\ op = "createPlaylist" /\ pc = "start"
    /\ wire' = Append(wire, Request("createPlaylist",
                    [user |-> session, name |-> input.name,
                     public |-> input.isPublic, description |-> input.description]))
    /\ pc' = "awaitCreate"
    /\ UNCHANGED <<ui, op, input, session, store, upstream, sf, loc, result>>

\* mutant: the range runs to uris.length instead of uris.length - 1
AddTracksConfigs_RangeToLength(uris, playlistId) ==
    LET positions == range(0, Len(uris), MAX_ITEMS_PER_REQUEST)
        config(position) ==
            [kind |-> "addTracks",
             arg |-> [playlist |-> playlistId, position |-> position,
                      uris |-> slice(uris, position, position + MAX_ITEMS_PER_REQUEST)]]
    IN  Map(positions, config)

\* positions and request descriptors of the add-track batches
AddTracksConfigs(uris, playlistId) ==
    LET positions == range(0, Len(uris) - 1, MAX_ITEMS_PER_REQUEST)
        config(position) ==
            [kind |-> "addTracks",
             arg |-> [playlist |-> playlistId, position |-> position,
                      uris |-> slice(uris, position, position + MAX_ITEMS_PER_REQUEST)]]
    IN  Map(positions, config)

\* ids the upstream service may give a new playlist
FreshPlaylistIds(existing) ==
    {SpotifyIdOf(n) : n \in 1..(Cardinality(existing) + 2)} \ existing

\* the create response arrives: throw on an error body, otherwise build the
\* add-track requests and call sequentialFetch
CreatePlaylistCreated ==
    /\ op = "createPlaylist" /\ pc = "awaitCreate"
    /\ \E createPlaylistRes \in {[id |-> p] : p \in FreshPlaylistIds(upstream)} \cup ErrorBodies :
          LET w1 == Answer(wire, Len(wire), createPlaylistRes)
          IN  IF HasError(createPlaylistRes)
              THEN /\ result' = UpstreamError(createPlaylistRes)
                   /\ pc' = "done"
                   /\ wire' = w1
                   /\ loc' = [loc EXCEPT !.createPlaylistRes = createPlaylistRes]
                   /\ UNCHANGED <<upstream, sf>>
              ELSE LET playlistId == createPlaylistRes.id
                       call == sequentialFetchStart(
                                   AddTracksConfigs(input.uris, playlistId), w1)
                   IN  /\ upstream' = upstream \cup {playlistId}
                       /\ loc' = [loc EXCEPT !.createPlaylistRes = createPlaylistRes,
                                              !.playlistId = playlistId,
                                              !.playlistUrl = playlistUrlOf(playlistId)]
                       /\ sf' = <<call.inst>>
                       /\ wire' = call.wire
                       /\ pc' = "awaitAddTracks"
                       /\ UNCHANGED result
    /\ UNCHANGED <<ui, op, input, session, store>>

\* mutant: failed batches go unnoticed
FilterErrors_None(jsons) == SelectSeq(jsons, LAMBDA json : FALSE)

\* mutant: only the first failed batch is kept
FilterErrors_FirstOnly(jsons) ==
    LET errors == SelectSeq(jsons, HasError)
    IN  IF errors = <<>> THEN <<>> ELSE <<errors[1]>>

\* addTracksToPlaylistJson.filter((json) => json.error)
FilterErrors(jsons) == SelectSeq(jsons, HasError)

PartialWriteError(errors, playlistUrl) ==
    [kind |-> "error", code |-> "INTERNAL_SERVER_ERROR",
     message |-> <<<<"Some tracks were not added to the playlist on Spotify. Visit ">>,
                   playlistUrl, <<" to manually add the tracks.">>>>,
     cause |-> Map(errors, ErrorText)]

\* mutant: the record is written without the caller's id
InsertData_Anonymous(playlistId, userId) == [spotifyId |-> playlistId, createdBy |-> "anonymous"]

\* the data of prisma.playlist.create
InsertData(playlistId, userId) == [spotifyId |-> playlistId, createdBy |-> userId]

\* sequentialFetch resolved: throw the aggregate error, or insert the record
CreatePlaylistTracksAdded ==
    /\ op = "createPlaylist" /\ pc = "awaitAddTracks"
    /\ sequentialFetchDone(sf[1])
    /\ LET addTracksToPlaylistJson == sf[1].results
           addTracksToPlaylistErrors == FilterErrors(addTracksToPlaylistJson)
       IN  /\ loc' = [loc EXCEPT !.addTracksToPlaylistJson = addTracksToPlaylistJson,
                                  !.addTracksToPlaylistErrors = addTracksToPlaylistErrors]
           /\ IF Len(addTracksToPlaylistErrors) > 0
              THEN /\ result' = PartialWriteError(addTracksToPlaylistErrors, loc.playlistUrl)
                   /\ pc' = "done"
                   /\ UNCHANGED wire
              ELSE /\ wire' = Append(wire, Request("playlist.create",
                                  InsertData(loc.playlistId, session)))
                   /\ pc' = "awaitInsert"
                   /\ UNCHANGED result
    /\ UNCHANGED <<ui, op, input, session, store, upstream, sf>>

PersistenceError(name, playlistUrl) ==
    [kind |-> "error", code |-> "INTERNAL_SERVER_ERROR",
     message |-> <<<<"Unable to save playlist ">>, <<name>>,
                   <<" to the database, but the it's available at ">>, playlistUrl, <<".">>>>,
     cause |-> <<"PrismaClientKnownRequestError">>]

\* mutant: the catch block rethrows whatever the insert threw
AfterInsert_AlwaysRethrow(outcome, name, playlistUrl) ==
    IF outcome.outcome # "ok"
    THEN PersistenceError(name, playlistUrl)
    ELSE [kind |-> "ok", value |-> [name |-> name, url |-> playlistUrl]]

\* what the try/catch around prisma.playlist.create leaves as the outcome
AfterInsert(outcome, name, playlistUrl) ==
    IF outcome.outcome = "known"
    THEN PersistenceError(name, playlistUrl)
    ELSE [kind |-> "ok", value |-> [name |-> name, url |-> playlistUrl]]

\* ctx.prisma.playlist.create settles
CreatePlaylistInserted ==
    /\ op = "createPlaylist" /\ pc = "awaitInsert"
    /\ \E outcome \in InsertOutcomes :
          /\ store' = IF outcome.outcome = "ok"
                      THEN Append(store, PlaylistRecord(Len(store) + 1,
                                      wire[Len(wire)].arg.spotifyId,
                                      wire[Len(wire)].arg.createdBy))
                      ELSE store
          /\ wire' = Answer(wire, Len(wire), outcome)
          /\ result' = AfterInsert(outcome, input.name, loc.playlistUrl)
    /\ pc' = "done"
    /\ UNCHANGED <<ui, op, input, session, upstream, sf, loc>>

NextCreatePlaylist ==
    \/ CreatePlaylistValidate
    \/ CreatePlaylistFetch
    \/ CreatePlaylistCreated
    \/ \E j \in DOMAIN sf : SequentialFetchReceive(j)
    \/ CreatePlaylistTracksAdded
    \/ CreatePlaylistInserted

SpecCreatePlaylist == InitCreatePlaylist /\ [][NextCreatePlaylist]_vars

----------------------------------------------------------------------------
(* query getPlaylists                                                      *)

\* the limits and cursors a call is made with; 0 and 101 are out of range
Limits == {0, 1, 2, 101}
Cursors == {None} \cup {[id |-> i] : i \in 1..(MaxRecords + 1)}

GetPlaylistsInputs ==
    {[limit |-> l, cursor |-> c, isCreatorOnly |-> b] :
        l \in {[value |-> v] : v \in Limits}, c \in Cursors, b \in BOOLEAN}

InitGetPlaylists ==
    /\ op = "getPlaylists"
    /\ pc = "input"
    /\ input \in GetPlaylistsInputs
    /\ session \in Users
    /\ store \in Stores(MaxRecords)
    /\ upstream = SpotifyIds(store)
    /\ wire = <<>>
    /\ sf = <<>>
    /\ loc = [total |-> None, items |-> <<>>, nextCursor |-> None]
    /\ result = None
    /\ ui = NoPages

\* input: z.object({limit: z.number().min(1).max(100).nullish(), ...})
GetPlaylistsInputValid(in) ==
    in.limit = None \/ (in.limit.value >= 1 /\ in.limit.value <= 100)

GetPlaylistsValidate ==
    /\ op = "getPlaylists" /\ pc = "input"
    /\ IF GetPlaylistsInputValid(input)
       THEN pc' = "start" /\ UNCHANGED result
       ELSE pc' = "done" /\ result' = BadRequest
    /\ UNCHANGED <<ui, op, input, session, store, upstream, wire, sf, loc>>

\* input.limit ?? 50
LimitOf(in) == IF in.limit = None THEN 50 ELSE in.limit.value

\* where: input.isCreatorOnly ? { createdBy: { equals: user.id } } : undefined
WhereOf(in, userId) == IF in.isCreatorOnly THEN [createdBy |-> userId] ELSE None

Matches(record, where) == where = None \/ record.createdBy = where.createdBy

Reverse(seq) == [k \in 1..Len(seq) |-> seq[Len(seq) + 1 - k]]

\* mutant: the count ignores the ownership filter
count_Unfiltered(table, where) == Len(table)

\* prisma.playlist.count({where})
count(table, where) == Cardinality({i \in 1..Len(table) : Matches(table[i], where)})

\* mutant: the page starts after the cursor row (as with skip: 1)
findMany_AfterCursor(table, take, cursor, where) ==
    LET ordered == Reverse(table)
        fromCursor ==
            IF cursor = None THEN ordered
            ELSE IF \E i \in 1..Len(ordered) : ordered[i].id = cursor.id
                 THEN LET at == CHOOSE i \in 1..Len(ordered) : ordered[i].id = cursor.id
                      IN  SubSeq(ordered, at + 1, Len(ordered))
                 ELSE <<>>
        matching == SelectSeq(fromCursor, LAMBDA r : Matches(r, where))
    IN  SubSeq(matching, 1, Min(take, Len(matching)))

\* prisma.playlist.findMany({take, cursor, orderBy: {createdAt: "desc"}, where}):
\* the matching rows, newest first, from the cursor row on, at most take of them
findMany(table, take, cursor, where) ==
    LET ordered == Reverse(table)
        fromCursor ==
            IF cursor = None THEN ordered
            ELSE IF \E i \in 1..Len(ordered) : ordered[i].id = cursor.id
                 THEN LET at == CHOOSE i \in 1..Len(ordered) : ordered[i].id = cursor.id
                      IN  SubSeq(ordered, at, Len(ordered))
                 ELSE <<>>
        matching == SelectSeq(fromCursor, LAMBDA r : Matches(r, where))
    IN  SubSeq(matching, 1, Min(take, Len(matching)))

\* the count and the page are requested together
GetPlaylistsQuery ==
    /\ op = "getPlaylists" /\ pc = "start"
    /\ wire' = wire \o
         <<Request("playlist.count", [where |-> WhereOf(input, session)]),
           Request("playlist.findMany",
                   [take |-> LimitOf(input) + 1, cursor |-> input.cursor,
                    where |-> WhereOf(input, session)])>>
    /\ pc' = "awaitStore"
    /\ UNCHANGED <<ui, op, input, session, store, upstream, sf, loc, result>>

\* mutant: the extra row is read but not popped
PopNextCursor_NoPop(items, limit) ==
    IF Len(items) > limit
    THEN [items |-> items, nextCursor |-> [id |-> items[Len(items)].id]]
    ELSE [items |-> items, nextCursor |-> None]

\* if (items.length > limit) { nextItem = items.pop(); nextCursor = nextItem.id }
PopNextCursor(items, limit) ==
    IF Len(items) > limit
    THEN [items |-> SubSeq(items, 1, Len(items) - 1), nextCursor |-> [id |-> items[Len(items)].id]]
    ELSE [items |-> items, nextCursor |-> None]

\* both store reads settle: pop the extra row, then fetch every playlist of
\* the page at once
GetPlaylistsPage ==
    /\ op = "getPlaylists" /\ pc = "awaitStore"
    /\ LET total == count(store, wire[1].arg.where)
           found == findMany(store, wire[2].arg.take, wire[2].arg.cursor, wire[2].arg.where)
           page == PopNextCursor(found, LimitOf(input))
           answered == Answer(Answer(wire, 1, [count |-> total]), 2, [rows |-> found])
       IN  /\ loc' = [loc EXCEPT !.total = total, !.items = page.items,
                                  !.nextCursor = page.nextCursor]
           /\ wire' = answered \o
                [k \in 1..Len(page.items) |->
                    Request("getPlaylist", [id |-> page.items[k].spotifyId])]
    /\ pc' = "awaitPlaylists"
    /\ UNCHANGED <<ui, op, input, session, store, upstream, sf, result>>

\* the track list lengths an upstream playlist may have
TrackCounts == {0, 1, MaxTracks}

\* the upstream playlist object
PlaylistBody(id, n) ==
    [id |-> id, name |-> <<"name of", id>>, description |-> <<"description of", id>>,
     images |-> <<[url |-> <<id, 640>>, height |-> 640, width |-> 640],
                  [url |-> <<id, 300>>, height |-> 300, width |-> 300],
                  [url |-> <<id, 60>>, height |-> 60, width |-> 60]>>,
     tracks |-> [items |-> [k \in 1..n |-> [track |-> [id |-> id * 1000 + k]]]]]

\* GET /playlists/{id}
PlaylistBodies(id) == {PlaylistBody(id, n) : n \in TrackCounts} \cup {ErrorBody(404, "m")}

\* one of the concurrent playlist fetches is answered
GetPlaylistsReceivePlaylist(i) ==
    /\ op = "getPlaylists" /\ pc = "awaitPlaylists"
    /\ i \in InFlight(wire)
    /\ wire[i].kind = "getPlaylist"
    /\ \E body \in PlaylistBodies(wire[i].arg.id) : wire' = Answer(wire, i, body)
    /\ UNCHANGED <<ui, op, pc, input, session, store, upstream, sf, loc, result>>

\* request descriptors of one playlist's audio-features batches
AudioFeaturesConfigs(playlist) ==
    LET indices == range(0, Len(playlist.tracks.items) - 1, MAX_ITEMS_PER_REQUEST)
        config(index) ==
            [kind |-> "audioFeatures",
             arg |-> [ids |-> Map(slice(playlist.tracks.items, index,
                                        index + MAX_ITEMS_PER_REQUEST),
                                  LAMBDA item : item.track.id)]]
    IN  Map(indices, config)

\* mutant: every batch of a playlist is fetched on its own, all at once
RECURSIVE StartEach(_, _, _)
StartEach(cfgs, started, w) ==
    IF cfgs = <<>> THEN [sf |-> started, wire |-> w]
    ELSE LET call == sequentialFetchStart(<<cfgs[1]>>, w)
         IN  StartEach(Tail(cfgs), Append(started, call.inst), call.wire)

RECURSIVE StartFetches_PerBatch(_, _, _)
StartFetches_PerBatch(playlists, started, w) ==
    IF playlists = <<>> THEN [threw |-> FALSE, sf |-> started, wire |-> w]
    ELSE IF "tracks" \notin DOMAIN playlists[1]
         THEN [threw |-> TRUE, sf |-> started, wire |-> w]
         ELSE LET calls == StartEach(AudioFeaturesConfigs(playlists[1]), started, w)
              IN  StartFetches_PerBatch(Tail(playlists), calls.sf, calls.wire)

\* mutant: each started fetch is put in front of those started before it
RECURSIVE StartFetches_Unshift(_, _, _)
StartFetches_Unshift(playlists, started, w) ==
    IF playlists = <<>> THEN [threw |-> FALSE, sf |-> started, wire |-> w]
    ELSE IF "tracks" \notin DOMAIN playlists[1]
         THEN [threw |-> TRUE, sf |-> started, wire |-> w]
         ELSE LET call == sequentialFetchStart(AudioFeaturesConfigs(playlists[1]), w)
              IN  StartFetches_Unshift(Tail(playlists), <<call.inst>> \o started, call.wire)

\* spotifyPlaylists.map((playlist) => ... sequentialFetch(configs)), evaluated
\* left to right: reading playlist.tracks.items of an error body throws, after
\* the fetches of the playlists before it were started
RECURSIVE StartFetches(_, _, _)
StartFetches(playlists, started, w) ==
    IF playlists = <<>> THEN [threw |-> FALSE, sf |-> started, wire |-> w]
    ELSE IF "tracks" \notin DOMAIN playlists[1]
         THEN [threw |-> TRUE, sf |-> started, wire |-> w]
         ELSE LET call == sequentialFetchStart(AudioFeaturesConfigs(playlists[1]), w)
              IN  StartFetches(Tail(playlists), Append(started, call.inst), call.wire)

\* what an exception that is no TRPCError reaches the caller as
InternalError(name) ==
    [kind |-> "error", code |-> "INTERNAL_SERVER_ERROR", message |-> <<<<name>>>>,
     cause |-> <<name>>]

\* spotifyPlaylists: what Promise.all resolves to, the bodies of the page's
\* playlist fetches in the order of the rows (the fetches follow the two
\* store reads on the wire)
spotifyPlaylistsOf(items, w) == [k \in 1..Len(items) |-> w[2 + k].res]

\* all playlist fetches are answered: start one batch fetch per playlist
GetPlaylistsFetched ==
    /\ op = "getPlaylists" /\ pc = "awaitPlaylists"
    /\ InFlight(wire) = {}
    /\ LET calls == StartFetches(spotifyPlaylistsOf(loc.items, wire), <<>>, wire)
       IN  /\ sf' = calls.sf
           /\ wire' = calls.wire
           /\ IF calls.threw
              THEN pc' = "done" /\ result' = InternalError("TypeError")
              ELSE pc' = "awaitAudioFeatures" /\ UNCHANGED result
    /\ UNCHANGED <<ui, op, input, session, store, upstream, loc>>

\* audioFeaturesForPlaylist.map((af) => af.audio_features ?? INITIAL_AUDIO_FEATURES)
\* .flat(): an error body contributes the single sentinel record
RECURSIVE FlatFeatures(_)
FlatFeatures(audioFeaturesForPlaylist) ==
    IF audioFeaturesForPlaylist = <<>> THEN <<>>
    ELSE (IF "audio_features" \in DOMAIN audioFeaturesForPlaylist[1]
          THEN audioFeaturesForPlaylist[1].audio_features
          ELSE <<INITIAL_AUDIO_FEATURES>>)
         \o FlatFeatures(Tail(audioFeaturesForPlaylist))

\* mutant: tempo is scaled like the bounded features
ScaleTrack_TempoScaled(track) ==
    [danceability |-> QTimes(Num(track.danceability), 100),
     energy |-> QTimes(Num(track.energy), 100),
     tempo |-> QTimes(Num(track.tempo), 100),
     valence |-> QTimes(Num(track.valence), 100)]

\* danceability, energy and valence times 100, tempo as it is
ScaleTrack(track) ==
    [danceability |-> QTimes(Num(track.danceability), 100),
     energy |-> QTimes(Num(track.energy), 100),
     tempo |-> Num(track.tempo),
     valence |-> QTimes(Num(track.valence), 100)]

averageAudioFeaturesOf(audioFeaturesForPlaylist) ==
    calculateAverageAudioFeatures(Map(FlatFeatures(audioFeaturesForPlaylist), ScaleTrack))

\* the Playlist shape returned for one upstream playlist
PlaylistOf(playlist, audioFeatures) ==
    [id |-> playlist.id, name |-> playlist.name, description |-> playlist.description,
     image |-> playlist.images[2], uri |-> playlistUrlOf(playlist.id),
     audioFeatures |-> audioFeatures]

\* every batch fetch has resolved: average, assemble and return
GetPlaylistsAssemble ==
    /\ op = "getPlaylists" /\ pc = "awaitAudioFeatures"
    /\ \A j \in DOMAIN sf : sequentialFetchDone(sf[j])
    /\ LET audioFeatures == [j \in 1..Len(sf) |-> sf[j].results]
           averageAudioFeatures == Map(audioFeatures, averageAudioFeaturesOf)
           spotifyPlaylists == spotifyPlaylistsOf(loc.items, wire)
           playlists == [i \in 1..Len(spotifyPlaylists) |->
                            PlaylistOf(spotifyPlaylists[i], averageAudioFeatures[i])]
       IN  result' = [kind |-> "ok",
                      value |-> [items |-> playlists, total |-> loc.total,
                                 nextCursor |-> loc.nextCursor]]
    /\ pc' = "done"
    /\ UNCHANGED <<ui, op, input, session, store, upstream, wire, sf, loc>>

NextGetPlaylists ==
    \/ GetPlaylistsValidate
    \/ GetPlaylistsQuery
    \/ GetPlaylistsPage
    \/ \E i \in DOMAIN wire : GetPlaylistsReceivePlaylist(i)
    \/ GetPlaylistsFetched
    \/ \E j \in DOMAIN sf : SequentialFetchReceive(j)
    \/ GetPlaylistsAssemble

SpecGetPlaylists == InitGetPlaylists /\ [][NextGetPlaylists]_vars

----------------------------------------------------------------------------
(* Upstream track objects and their normalisation                          *)

\* a track object of a search or recommendation response
TrackObject(id) ==
    [id |-> id, uri |-> <<"spotify:track:", id>>, name |-> <<"track", id>>,
     artists |-> <<[id |-> id + 1, name |-> <<"artist", id + 1>>],
                   [id |-> id + 2, name |-> <<"artist", id + 2>>]>>,
     preview_url |-> <<"preview", id>>,
     album |-> [name |-> <<"album", id>>,
                images |-> <<[url |-> <<id, 640>>, height |-> 640, width |-> 640],
                             [url |-> <<id, 64>>, height |-> 64, width |-> 64]>>],
     duration_ms |-> 1000 * id]

\* the track lists a response may carry: at most max tracks, in any order
RECURSIVE TrackLists(_)
TrackLists(max) ==
    IF max = 0 THEN {<<>>}
    ELSE TrackLists(max - 1)
         \cup {Append(l, TrackObject(id)) :
                 l \in {x \in TrackLists(max - 1) : Len(x) = max - 1}, id \in 1..MaxItems}

\* the fields both search and getRecommendations return for a track
NormalizeTrack(item) ==
    [id |-> item.id, uri |-> item.uri, name |-> item.name,
     artists |-> Map(item.artists, LAMBDA artist : artist.name),
     previewUrl |-> item.preview_url, albumName |-> item.album.name,
     image |-> item.album.images[Len(item.album.images)],
     duration |-> item.duration_ms]

----------------------------------------------------------------------------
(* query search                                                            *)

Chars == {" ", "a"}

RECURSIVE Strings(_)
Strings(max) ==
    IF max = 0 THEN {<<>>}
    ELSE Strings(max - 1)
         \cup {Append(x, c) : x \in {y \in Strings(max - 1) : Len(y) = max - 1}, c \in Chars}

SearchInputs ==
    {[q |-> q, offset |-> o, limit |-> l] :
        q \in Strings(MaxQueryLen), o \in {0, 1001}, l \in {-1, 0, 1, 2, 51}}

InitSearch ==
    /\ op = "search"
    /\ pc = "input"
    /\ input \in SearchInputs
    /\ session \in Users
    /\ store = <<>>
    /\ upstream = {}
    /\ wire = <<>>
    /\ sf = <<>>
    /\ loc = [res |-> None]
    /\ result = None
    /\ ui = NoPages

\* input: z.object({q: z.string(), offset: min(0).max(1000), limit: min(0).max(50)})
SearchInputValid(in) ==
    /\ in.offset >= 0 /\ in.offset <= 1000
    /\ in.limit >= 0 /\ in.limit <= 50

SearchValidate ==
    /\ op = "search" /\ pc = "input"
    /\ IF SearchInputValid(input)
       THEN pc' = "start" /\ UNCHANGED result
       ELSE pc' = "done" /\ result' = BadRequest
    /\ UNCHANGED <<ui, op, input, session, store, upstream, wire, sf, loc>>

\* String.prototype.trim
RECURSIVE trimStart(_)
trimStart(q) == IF q # <<>> /\ q[1] = " " THEN trimStart(Tail(q)) ELSE q

RECURSIVE trimEnd(_)
trimEnd(q) ==
    IF q # <<>> /\ q[Len(q)] = " " THEN trimEnd(SubSeq(q, 1, Len(q) - 1)) ELSE q

trim(q) == trimEnd(trimStart(q))

\* mutant: the query is tested without trimming it
IsBlank_NoTrim(q) == q = <<>>

\* !input.q.trim()
IsBlank(q) == trim(q) = <<>>

\* a blank query returns [] at once; any other is sent upstream
SearchResolve ==
    /\ op = "search" /\ pc = "start"
    /\ IF IsBlank(input.q)
       THEN /\ result' = [kind |-> "ok", value |-> <<>>]
            /\ pc' = "done"
            /\ UNCHANGED wire
       ELSE /\ wire' = Append(wire, Request("search",
                            [q |-> input.q, type |-> "track",
                             offset |-> input.offset, limit |-> input.limit]))
            /\ pc' = "awaitSearch"
            /\ UNCHANGED result
    /\ UNCHANGED <<ui, op, input, session, store, upstream, sf, loc>>

\* the statuses the upstream service may fail with; 418 and 400 are not in the table
UpstreamStatuses == {400, 401, 403, 404, 418, 429, 500, 503}

\* GET /search: an error, or at most limit tracks
SearchBodies(limit) ==
    {ErrorBody(status, "m") : status \in UpstreamStatuses}
    \cup {[tracks |-> [items |-> l]] : l \in TrackLists(Min(limit, MaxItems))}

NotFound ==
    [kind |-> "error", code |-> "NOT_FOUND", message |-> <<<<"No tracks found">>>>,
     cause |-> <<>>]

\* mutant: an empty track list is returned as it is
SearchOutcome_NoNotFound(res) ==
    IF HasError(res) THEN UpstreamError(res)
    ELSE [kind |-> "ok", value |-> Map(res.tracks.items, NormalizeTrack)]

\* what the resolve function does with the parsed response
SearchOutcome(res) ==
    IF HasError(res) THEN UpstreamError(res)
    ELSE IF Len(res.tracks.items) = 0 THEN NotFound
    ELSE [kind |-> "ok", value |-> Map(res.tracks.items, NormalizeTrack)]

SearchReceive ==
    /\ op = "search" /\ pc = "awaitSearch"
    /\ \E res \in SearchBodies(wire[1].arg.limit) :
          /\ wire' = Answer(wire, 1, res)
          /\ loc' = [loc EXCEPT !.res = res]
          /\ result' = SearchOutcome(res)
    /\ pc' = "done"
    /\ UNCHANGED <<ui, op, input, session, store, upstream, sf>>

NextSearch ==
    \/ SearchValidate
    \/ SearchResolve
    \/ SearchReceive

SpecSearch == InitSearch /\ [][NextSearch]_vars

----------------------------------------------------------------------------
(* query getRecommendations                                                *)

Absent == [absent |-> TRUE]

Given(v) == [value |-> v]

IsGiven(opt) == "value" \in DOMAIN opt

GetRecommendationsInputs ==
    {[trackSeeds |-> [k \in 1..n |-> k], limit |-> l, danceability |-> d,
      tempo |-> t, valence |-> v, energy |-> e] :
        n \in 0..MaxSeeds, l \in {0, 1, 2, 101},
        d \in {Absent, Given(0), Given(7), Given(50), Given(100), Given(101)},
        t \in {Absent, Given(120)},
        v \in {Absent, Given(33)},
        e \in {Absent, Given(100)}}

InitGetRecommendations ==
    /\ op = "getRecommendations"
    /\ pc = "input"
    /\ input \in GetRecommendationsInputs
    /\ session \in {"u1"}
    /\ store = <<>>
    /\ upstream = {}
    /\ wire = <<>>
    /\ sf = <<>>
    /\ loc = [res |-> None, audioFeaturesRes |-> None]
    /\ result = None
    /\ ui = NoPages

InRange(opt, lo, hi) == IsGiven(opt) => (opt.value >= lo /\ opt.value <= hi)

\* input: trackSeeds max(5), limit 1..100, danceability, valence, energy 0..100
GetRecommendationsInputValid(in) ==
    /\ Len(in.trackSeeds) <= 5
    /\ in.limit >= 1 /\ in.limit <= 100
    /\ InRange(in.danceability, 0, 100)
    /\ InRange(in.valence, 0, 100)
    /\ InRange(in.energy, 0, 100)

GetRecommendationsValidate ==
    /\ op = "getRecommendations" /\ pc = "input"
    /\ IF GetRecommendationsInputValid(input)
       THEN pc' = "start" /\ UNCHANGED result
       ELSE pc' = "done" /\ result' = BadRequest
    /\ UNCHANGED <<ui, op, input, session, store, upstream, wire, sf, loc>>

\* searchParams.append(name, value) when the input was given
Param(name, opt, value) == IF IsGiven(opt) THEN name :> value ELSE <<>>

\* `${x}` for a number with at most two decimals: the integer part and the
\* decimals without trailing zeros (0.5, not 0.50; 1, not 1.00)
NumberToString(x) ==
    LET h == (x.n * 100) \div x.d
        f == h % 100
    IN  [whole |-> h \div 100,
         frac |-> IF f = 0 THEN <<>>
                  ELSE IF f % 10 = 0 THEN <<f \div 10>>
                  ELSE <<f \div 10, f % 10>>]

\* mutant: the bounded targets are sent on the 0..100 scale
RecommendationParams_Unscaled(in) ==
    [seed_tracks |-> in.trackSeeds, limit |-> in.limit]
    @@ Param("target_danceability", in.danceability,
             NumberToString(Q(in.danceability.value, 1)))
    @@ Param("target_tempo", in.tempo, NumberToString(Q(in.tempo.value, 1)))
    @@ Param("target_valence", in.valence, NumberToString(Q(in.valence.value, 1)))
    @@ Param("target_energy", in.energy, NumberToString(Q(in.energy.value, 1)))

\* the query string of GET /recommendations
RecommendationParams(in) ==
    [seed_tracks |-> in.trackSeeds, limit |-> in.limit]
    @@ Param("target_danceability", in.danceability,
             NumberToString(Q(in.danceability.value, 100)))
    @@ Param("target_tempo", in.tempo, NumberToString(Q(in.tempo.value, 1)))
    @@ Param("target_valence", in.valence, NumberToString(Q(in.valence.value, 100)))
    @@ Param("target_energy", in.energy, NumberToString(Q(in.energy.value, 100)))

\* mutant: the recommendations are requested even without seeds
GetRecommendationsResolve_NoSeedCheck ==
    /\ op = "getRecommendations" /\ pc = "start"
    /\ wire' = Append(wire, Request("recommendations", RecommendationParams(input)))
    /\ pc' = "awaitRecommendations"
    /\ UNCHANGED <<ui, op, input, session, store, upstream, sf, loc, result>>

\* no seeds returns [] at once; otherwise the recommendations are requested
GetRecommendationsResolve ==
    /\ op = "getRecommendations" /\ pc = "start"
    /\ IF Len(input.trackSeeds) = 0
       THEN /\ result' = [kind |-> "ok", value |-> <<>>]
            /\ pc' = "done"
            /\ UNCHANGED wire
       ELSE /\ wire' = Append(wire, Request("recommendations", RecommendationParams(input)))
            /\ pc' = "awaitRecommendations"
            /\ UNCHANGED result
    /\ UNCHANGED <<ui, op, input, session, store, upstream, sf, loc>>

\* GET /recommendations: an error, or at most limit tracks
RecommendationBodies(limit) ==
    {ErrorBody(status, "m") : status \in {401, 418}}
    \cup {[tracks |-> l] : l \in TrackLists(Min(limit, MaxItems))}

\* the recommendations arrive: throw on an error body, otherwise look up the
\* audio features of the returned tracks
GetRecommendationsReceive ==
    /\ op = "getRecommendations" /\ pc = "awaitRecommendations"
    /\ \E res \in RecommendationBodies(wire[1].arg.limit) :
          /\ loc' = [loc EXCEPT !.res = res]
          /\ IF HasError(res)
             THEN /\ wire' = Answer(wire, 1, res)
                  /\ result' = UpstreamError(res)
                  /\ pc' = "done"
             ELSE /\ wire' = Append(Answer(wire, 1, res),
                                  Request("audioFeatures",
                                          [ids |-> Map(res.tracks, LAMBDA track : track.id)]))
                  /\ pc' = "awaitAudioFeatures"
                  /\ UNCHANGED result
    /\ UNCHANGED <<ui, op, input, session, store, upstream, sf>>

\* the sentinel as the numbers spread into a returned track
SentinelFeatures ==
    [danceability |-> Num(INITIAL_AUDIO_FEATURES.danceability),
     tempo |-> Num(INITIAL_AUDIO_FEATURES.tempo),
     valence |-> Num(INITIAL_AUDIO_FEATURES.valence),
     energy |-> Num(INITIAL_AUDIO_FEATURES.energy)]

\* hasAudioFeatures ? {floor(x * 100) ..., tempo} : INITIAL_AUDIO_FEATURES
TrackFeatures(audioFeaturesRes, i) ==
    IF ~HasError(audioFeaturesRes)
    THEN [danceability |-> Floor(QTimes(Num(audioFeaturesRes.audio_features[i].danceability), 100)),
          tempo |-> Num(audioFeaturesRes.audio_features[i].tempo),
          valence |-> Floor(QTimes(Num(audioFeaturesRes.audio_features[i].valence), 100)),
          energy |-> Floor(QTimes(Num(audioFeaturesRes.audio_features[i].energy), 100))]
    ELSE SentinelFeatures

\* res.tracks.map((track, i) => ({...fields, ...audioFeatures}))
RecommendedTracks(res, audioFeaturesRes) ==
    [i \in 1..Len(res.tracks) |->
        NormalizeTrack(res.tracks[i]) @@ TrackFeatures(audioFeaturesRes, i)]

\* mutant: the features are read without looking at hasAudioFeatures, which
\* throws on an error body
RecommendationsOutcome_Unguarded(res, audioFeaturesRes) ==
    IF HasError(audioFeaturesRes) THEN InternalError("TypeError")
    ELSE [kind |-> "ok", value |-> RecommendedTracks(res, audioFeaturesRes)]

\* what the resolve function returns once both responses are in
RecommendationsOutcome(res, audioFeaturesRes) ==
    [kind |-> "ok", value |-> RecommendedTracks(res, audioFeaturesRes)]

\* the audio features arrive, or the lookup fails
GetRecommendationsFeatures ==
    /\ op = "getRecommendations" /\ pc = "awaitAudioFeatures"
    /\ \E audioFeaturesRes \in AudioFeaturesBodies(wire[2].arg.ids) :
          /\ wire' = Answer(wire, 2, audioFeaturesRes)
          /\ loc' = [loc EXCEPT !.audioFeaturesRes = audioFeaturesRes]
          /\ result' = RecommendationsOutcome(loc.res, audioFeaturesRes)
    /\ pc' = "done"
    /\ UNCHANGED <<ui, op, input, session, store, upstream, sf>>

NextGetRecommendations ==
    \/ GetRecommendationsValidate
    \/ GetRecommendationsResolve
    \/ GetRecommendationsReceive
    \/ GetRecommendationsFeatures

SpecGetRecommendations == InitGetRecommendations /\ [][NextGetRecommendations]_vars

----------------------------------------------------------------------------
(* All four procedures                                                     *)

Init ==
    \/ InitSearch
    \/ InitGetRecommendations
    \/ InitGetPlaylists
    \/ InitCreatePlaylist

Next ==
    \/ NextSearch
    \/ NextGetRecommendations
    \/ NextGetPlaylists
    \/ NextCreatePlaylist

Spec == Init /\ [][Next]_vars

----------------------------------------------------------------------------
(* The listing page (pages/mixtapes): an infinite query over getPlaylists  *)

PLAYLIST_BATCH_NUM == 20

\* page sizes: the page asks for PLAYLIST_BATCH_NUM; 1 and 2 stand for it over
\* stores small enough to enumerate
PageLimits == {1, 2, PLAYLIST_BATCH_NUM}

\* the first call: useInfiniteQuery(["spotify.getPlaylists", {limit, isCreatorOnly}])
InitMixtapes ==
    /\ op = "getPlaylists"
    /\ pc = "input"
    /\ input \in {[limit |-> [value |-> l], cursor |-> None, isCreatorOnly |-> b] :
                    l \in PageLimits, b \in BOOLEAN}
    /\ session \in Users
    /\ store \in Stores(MaxListed)
    /\ upstream = SpotifyIds(store)
    /\ wire = <<>>
    /\ sf = <<>>
    /\ loc = [total |-> None, items |-> <<>>, nextCursor |-> None]
    /\ result = None
    /\ ui = NoPages

\* Object.values(playlist.audioFeatures).every((val) => val !== 0)
hasAudioFeatures(audioFeatures) ==
    \A field \in DOMAIN audioFeatures : audioFeatures[field].n # 0

\* data.pages.reduce((acc, curr) => [...acc, ...curr.items], [])
RECURSIVE playlistsOf(_)
playlistsOf(pages) ==
    IF pages = <<>> THEN <<>>
    ELSE playlistsOf(SubSeq(pages, 1, Len(pages) - 1)) \o pages[Len(pages)].items

\* what the list shows of a playlist: its entry, and the meters if it has
\* audio features
RenderPlaylist(playlist) ==
    [id |-> playlist.id, name |-> playlist.name,
     audioFeatures |-> playlist.audioFeatures,
     meters |-> hasAudioFeatures(playlist.audioFeatures)]

\* a page arrives: it is appended to data.pages and the list is rendered again
PlaylistsReceivePage ==
    /\ op = "getPlaylists" /\ pc = "done"
    /\ result.kind = "ok"
    /\ LET pages == Append(ui.pages, result.value)
       IN  ui' = [pages |-> pages, list |-> Map(playlistsOf(pages), RenderPlaylist)]
    /\ pc' = "rendered"
    /\ UNCHANGED <<op, input, session, store, upstream, wire, sf, loc, result>>

\* getNextPageParam: (lastPage) => lastPage.nextCursor
getNextPageParam(pages) == pages[Len(pages)].nextCursor

hasNextPage(pages) == pages # <<>> /\ getNextPageParam(pages) # None

\* fetchNextPage(): the same query with the cursor of the last page
PlaylistsFetchNextPage ==
    /\ op = "getPlaylists" /\ pc = "rendered"
    /\ hasNextPage(ui.pages)
    /\ input' = [input EXCEPT !.cursor = getNextPageParam(ui.pages)]
    /\ pc' = "input"
    /\ wire' = <<>>
    /\ sf' = <<>>
    /\ loc' = [total |-> None, items |-> <<>>, nextCursor |-> None]
    /\ result' = None
    /\ UNCHANGED <<ui, op, session, store, upstream>>

NextMixtapes ==
    \/ NextGetPlaylists
    \/ PlaylistsReceivePage
    \/ PlaylistsFetchNextPage

SpecMixtapes == InitMixtapes /\ [][NextMixtapes]_vars

----------------------------------------------------------------------------
(* Properties of createPlaylist                                            *)

\* the upstream playlist was created: the create request got a success body
Created ==
    /\ Len(wire) >= 1 /\ wire[1].kind = "createPlaylist"
    /\ ~Pending(wire[1]) /\ ~HasError(wire[1].res)

CreatedId == wire[1].res.id

Contains(message, part) == \E i \in 1..Len(message) : message[i] = part

RecordsOf(spotifyId) == {i \in 1..Len(store) : store[i].spotifyId = spotifyId}

AddTrackFailures == SelectSeq(ResponsesTo(wire, "addTracks"), HasError)

AllBatchesAnswered ==
    Len(ResponsesTo(wire, "addTracks")) = Len(RequestsOf(wire, "addTracks"))

Ceil(n, d) == (n + d - 1) \div d

\* C1: once the upstream playlist exists, if some add-track response is an
\* error, createPlaylist fails with an aggregate error naming, in order, the
\* error of exactly the failed batches, its message contains the playlist's
\* URL, no ownership record for the playlist is stored and the upstream
\* playlist is left in place (nothing but add-track requests follows the create).
C1_PartialWriteFailure ==
    (op = "createPlaylist" /\ pc = "done" /\ Created /\ Len(AddTrackFailures) > 0) =>
        /\ result.kind = "error"
        /\ Len(result.cause) = Len(AddTrackFailures)
        /\ \A k \in 1..Len(AddTrackFailures) :
              result.cause[k] = <<AddTrackFailures[k].error.status, "! ",
                                  AddTrackFailures[k].error.message>>
        /\ Contains(result.message, <<"https://open.spotify.com/playlist/", CreatedId>>)
        /\ RecordsOf(CreatedId) = {}
        /\ RequestsOf(wire, "playlist.create") = <<>>
        /\ CreatedId \in upstream
        /\ \A i \in 2..Len(wire) : wire[i].kind = "addTracks"

\* two of three batches failed, one succeeded, and the call has ended
C1_Witness ==
    /\ op = "createPlaylist" /\ pc = "done" /\ Created
    /\ Len(ResponsesTo(wire, "addTracks")) = 3
    /\ Len(AddTrackFailures) = 2
    /\ result.kind = "error"

\* C2 as claimed: whenever the playlist was created and every batch succeeded,
\* exactly one ownership record with the created id and the caller's id is stored.
C2_ExactlyOneRecordPersisted ==
    (op = "createPlaylist" /\ pc = "done" /\ Created /\ Len(AddTrackFailures) = 0) =>
        /\ Cardinality(RecordsOf(CreatedId)) = 1
        /\ \A i \in RecordsOf(CreatedId) : store[i].createdBy = session

\* C2 amended: whenever the playlist was created and every batch succeeded,
\* exactly one insert is attempted, carrying the created id and the caller's
\* id; exactly one such record is stored if the insert succeeds and none if
\* it fails.
C2_ExactlyOneInsert ==
    (op = "createPlaylist" /\ pc = "done" /\ Created /\ Len(AddTrackFailures) = 0) =>
        LET inserts == RequestsOf(wire, "playlist.create")
            outcome == ResponsesTo(wire, "playlist.create")
        IN  /\ Len(inserts) = 1 /\ Len(outcome) = 1
            /\ inserts[1].arg = [spotifyId |-> CreatedId, createdBy |-> session]
            /\ outcome[1].outcome = "ok" =>
                  /\ Cardinality(RecordsOf(CreatedId)) = 1
                  /\ \A i \in RecordsOf(CreatedId) : store[i].createdBy = session
            /\ outcome[1].outcome # "ok" => RecordsOf(CreatedId) = {}

\* three batches succeeded and the record was stored beside an older one
C2_Witness ==
    /\ op = "createPlaylist" /\ pc = "done" /\ Created
    /\ Len(ResponsesTo(wire, "addTracks")) = 3 /\ Len(AddTrackFailures) = 0
    /\ ResponsesTo(wire, "playlist.create") = <<[outcome |-> "ok"]>>
    /\ Len(store) = 2
    /\ store[2].spotifyId = CreatedId

\* C3: for n >= 1 uris exactly ceil(n/100) add-track requests are built, the
\* k-th (from 0) with position 100k and the uris at [100k, min(100k+100, n)):
\* non-empty batches whose concatenation is the input; and these are the
\* requests issued, in this order, once the batch fetch has completed.
C3_BatchesPartitionInput ==
    (op = "createPlaylist" /\ Created) =>
        LET n == Len(input.uris)
            built == sf[1].configs
            issued == RequestsOf(wire, "addTracks")
        IN  /\ Len(built) = Ceil(n, 100)
            /\ \A k \in 1..Len(built) :
                  /\ built[k].arg.position = 100 * (k - 1)
                  /\ Len(built[k].arg.uris) = Min(100, n - 100 * (k - 1))
                  /\ Len(built[k].arg.uris) >= 1
                  /\ \A i \in 1..Len(built[k].arg.uris) :
                        built[k].arg.uris[i] = input.uris[100 * (k - 1) + i]
            /\ \A i \in 1..n :
                  input.uris[i] = built[((i - 1) \div 100) + 1].arg.uris[((i - 1) % 100) + 1]
            /\ Len(issued) <= Len(built)
            /\ \A k \in 1..Len(issued) : issued[k].arg = built[k].arg
            /\ pc \in {"awaitInsert", "done"} => Len(issued) = Len(built)

\* 150 uris: two requests were issued, at positions 0 and 100
C3_Witness ==
    /\ op = "createPlaylist" /\ pc = "done" /\ Created
    /\ Len(input.uris) = 150
    /\ Len(RequestsOf(wire, "addTracks")) = 2
    /\ RequestsOf(wire, "addTracks")[1].arg.position = 0
    /\ RequestsOf(wire, "addTracks")[2].arg.position = 100
    /\ Len(RequestsOf(wire, "addTracks")[2].arg.uris) = 50

\* C6: when the playlist and all batches succeeded but the insert fails,
\* createPlaylist still returns the name and URL, unless the failure is the
\* known-request (conflict) kind, in which case it fails with a message that
\* contains the URL; either way the upstream playlist still exists.
C6_PersistenceFailure ==
    (/\ op = "createPlaylist" /\ pc = "done" /\ Created
     /\ Len(AddTrackFailures) = 0
     /\ ResponsesTo(wire, "playlist.create") # <<[outcome |-> "ok"]>>) =>
        LET url == <<"https://open.spotify.com/playlist/", CreatedId>>
            failure == ResponsesTo(wire, "playlist.create")[1].outcome
        IN  /\ failure # "known" =>
                  result = [kind |-> "ok", value |-> [name |-> input.name, url |-> url]]
            /\ failure = "known" =>
                  result.kind = "error" /\ Contains(result.message, url)
            /\ CreatedId \in upstream
            /\ \A i \in 2..Len(wire) : wire[i].kind \in {"addTracks", "playlist.create"}

\* the insert failed with an error other than the conflict kind and the call returned
C6_Witness ==
    /\ op = "createPlaylist" /\ pc = "done" /\ Created
    /\ ResponsesTo(wire, "playlist.create") = <<[outcome |-> "other"]>>
    /\ result.kind = "ok"

\* the insert failed with the conflict kind and the call threw
C6_WitnessConflict ==
    /\ op = "createPlaylist" /\ pc = "done" /\ Created
    /\ ResponsesTo(wire, "playlist.create") = <<[outcome |-> "known"]>>
    /\ result.kind = "error"

----------------------------------------------------------------------------
(* Properties of the batch fetcher                                         *)

\* the wire indices, in order, of the requests of fetcher instance j: the
\* add-track requests of createPlaylist, or the audio-features requests for
\* the tracks of the j-th playlist of the page
InstanceRequests(j) ==
    SelectSeq([i \in 1..Len(wire) |-> i],
              LAMBDA i : \/ wire[i].kind = "addTracks"
                         \/ /\ op = "getPlaylists"
                            /\ wire[i].kind = "audioFeatures"
                            /\ wire[i].arg.ids[1] \div 1000 = loc.items[j].spotifyId)

\* C4: a batch fetch issues its requests one at a time in input order (all
\* but the last request issued are answered), goes on after an error body
\* (every descriptor is requested by the time it resolves), and collects
\* exactly one body per descriptor, in input order.
C4_SequentialCollectAll ==
    \A j \in DOMAIN sf :
        LET reqs == InstanceRequests(j)
            configs == sf[j].configs
            results == sf[j].results
        IN  /\ Len(reqs) <= Len(configs)
            /\ \A k \in 1..Len(reqs) :
                  /\ wire[reqs[k]].kind = configs[k].kind
                  /\ wire[reqs[k]].arg = configs[k].arg
                  /\ k < Len(reqs) => ~Pending(wire[reqs[k]])
            /\ Len(results) <= Len(reqs)
            /\ \A k \in 1..Len(reqs) :
                  IF k <= Len(results)
                  THEN ~Pending(wire[reqs[k]]) /\ results[k] = wire[reqs[k]].res
                  ELSE Pending(wire[reqs[k]])
            /\ Len(results) < Len(configs) => Len(reqs) = Len(results) + 1
            /\ sequentialFetchDone(sf[j]) <=> Len(results) = Len(configs)

\* three add-track batches, the first answered with an error, all collected
C4_Witness ==
    /\ op = "createPlaylist" /\ Len(sf) = 1
    /\ Len(sf[1].configs) = 3 /\ Len(sf[1].results) = 3
    /\ HasError(sf[1].results[1]) /\ ~HasError(sf[1].results[3])

\* two playlists' fetches are running at once, one past an error body
C4_WitnessGetPlaylists ==
    /\ op = "getPlaylists" /\ Len(sf) = 2
    /\ Len(sf[1].results) = 1 /\ HasError(sf[1].results[1]) /\ sf[1].req # 0
    /\ sf[2].req # 0

----------------------------------------------------------------------------
(* Properties of getPlaylists                                              *)

\* the rows a getPlaylists call ranges over: those matching the ownership
\* filter, from the cursor row onward in creation-time-descending order
CursorRows ==
    IF input.cursor = None THEN 1..Len(store)
    ELSE {i \in 1..Len(store) :
            \E c \in 1..Len(store) :
                store[c].id = input.cursor.id /\ store[i].createdAt <= store[c].createdAt}

MatchingRows ==
    {i \in CursorRows : input.isCreatorOnly => store[i].createdBy = session}

\* the k-th matching row, newest first
NthMatching(k) ==
    CHOOSE i \in MatchingRows :
        Cardinality({j \in MatchingRows : store[j].createdAt > store[i].createdAt}) = k - 1

PageRead == op = "getPlaylists" /\ pc \in {"awaitPlaylists", "awaitAudioFeatures", "done"}
            /\ GetPlaylistsInputValid(input)

Returned == op = "getPlaylists" /\ pc = "done" /\ result.kind = "ok"

\* C5: with limit L and m matching rows from the cursor on: if m > L the page
\* and the result have exactly L items and nextCursor is the id of the
\* (L+1)-th row, which is not among the items; if m <= L they have m items
\* and nextCursor is absent.
C5_PageAndNextCursor ==
    PageRead =>
        LET L == input.limit.value
            m == Cardinality(MatchingRows)
        IN  /\ m > L =>
                  /\ Len(loc.items) = L
                  /\ loc.nextCursor = [id |-> store[NthMatching(L + 1)].id]
                  /\ \A k \in 1..Len(loc.items) : loc.items[k].id # store[NthMatching(L + 1)].id
                  /\ Returned =>
                        /\ Len(result.value.items) = L
                        /\ result.value.nextCursor = [id |-> store[NthMatching(L + 1)].id]
                        /\ \A k \in 1..Len(result.value.items) :
                              result.value.items[k].id # store[NthMatching(L + 1)].spotifyId
            /\ m <= L =>
                  /\ Len(loc.items) = m
                  /\ loc.nextCursor = None
                  /\ Returned =>
                        /\ Len(result.value.items) = m
                        /\ result.value.nextCursor = None

\* limit 2 over three matching rows: two items returned, the oldest row is next
C5_Witness ==
    /\ Returned
    /\ input.limit.value = 2 /\ Cardinality(MatchingRows) = 3
    /\ Len(result.value.items) = 2
    /\ result.value.nextCursor = [id |-> 1]

\* limit 2 over exactly two matching rows: no next cursor
C5_WitnessLastPage ==
    /\ Returned
    /\ input.limit.value = 2 /\ Cardinality(MatchingRows) = 2
    /\ Len(result.value.items) = 2
    /\ result.value.nextCursor = None

\* the audio-features requests issued for the tracks of one playlist, in order
FeatureRequests(playlistId) ==
    SelectSeq(wire, LAMBDA e : e.kind = "audioFeatures" /\ e.arg.ids[1] \div 1000 = playlistId)

\* F(ids[lo]) + ... + F(ids[hi]), added up by halves
RECURSIVE SumRange(_, _, _, _)
SumRange(F(_), ids, lo, hi) ==
    IF lo > hi THEN 0
    ELSE IF lo = hi THEN F(ids[lo])
    ELSE LET mid == (lo + hi) \div 2
         IN  SumRange(F, ids, lo, mid) + SumRange(F, ids, mid + 1, hi)

SumOver(F(_), ids, k) == SumRange(F, ids, 1, k)

\* the track ids of batch k (from 1) of a track list
BatchIds(tracks, k) ==
    [i \in 1..Min(100, Len(tracks) - 100 * (k - 1)) |-> tracks[100 * (k - 1) + i].track.id]

\* the features are fetched in ceil(n/100) batches of up to 100 ids covering
\* the track list in order
FetchedInBatches(tracks, reqs) ==
    /\ Len(reqs) = Ceil(Len(tracks), 100)
    /\ \A k \in 1..Len(reqs) : reqs[k].arg.ids = BatchIds(tracks, k)

\* mean of the per-track values of one feature (thousandths upstream) times scale
MeanOf(F(_), scale, batches, records) ==
    LET Total(k) == SumOver(F, batches[k], Len(batches[k]))
        sum == SumOver(Total, [k \in 1..Len(batches) |-> k], Len(batches))
    IN  IF records = 0 THEN Q(0, 1) ELSE Q(scale * sum, 1000 * records)

MeanFeatures(batches, records) ==
    [danceability |-> MeanOf(LAMBDA t : FeaturesOf(t).danceability, 100, batches, records),
     energy |-> MeanOf(LAMBDA t : FeaturesOf(t).energy, 100, batches, records),
     tempo |-> MeanOf(LAMBDA t : FeaturesOf(t).tempo, 1, batches, records),
     valence |-> MeanOf(LAMBDA t : FeaturesOf(t).valence, 100, batches, records)]

\* C7 as claimed: every returned playlist's audioFeatures is the mean of the
\* features of all its tracks, one record per track, fetched in batches of up
\* to 100 ids; with no tracks nothing is requested and it is all zero.
C7_MeanOfAllTracks ==
    Returned =>
        \A i \in 1..Len(result.value.items) :
            LET tracks == wire[2 + i].res.tracks.items
                reqs == FeatureRequests(result.value.items[i].id)
                all == [k \in 1..Len(reqs) |-> BatchIds(tracks, k)]
            IN  /\ FetchedInBatches(tracks, reqs)
                /\ result.value.items[i].audioFeatures = MeanFeatures(all, Len(tracks))

\* What getPlaylists computes instead: every returned playlist's features are
\* fetched in ceil(n/100) batches of up to 100 ids, and its audioFeatures is
\* the mean over one record per track of every batch answered without error
\* and one all-zero record for every batch answered with an error: the mean
\* over all its tracks when no lookup failed, all zero when there are no
\* tracks (nothing requested) or every batch failed, and a mean diluted by the
\* zero records when only some batches failed.
C7_MeanOfFetchedRecords ==
    Returned =>
        \A i \in 1..Len(result.value.items) :
            LET tracks == wire[2 + i].res.tracks.items
                reqs == FeatureRequests(result.value.items[i].id)
                fetched == [k \in 1..Len(reqs) |->
                               IF HasError(reqs[k].res) THEN <<>> ELSE BatchIds(tracks, k)]
                failed == Cardinality({k \in 1..Len(reqs) : HasError(reqs[k].res)})
                records == SumOver(Len, fetched, Len(fetched)) + failed
            IN  /\ FetchedInBatches(tracks, reqs)
                /\ result.value.items[i].audioFeatures = MeanFeatures(fetched, records)
                /\ failed = 0 =>
                      result.value.items[i].audioFeatures =
                          MeanFeatures([k \in 1..Len(reqs) |-> BatchIds(tracks, k)], Len(tracks))
                /\ (Len(tracks) = 0 \/ failed = Len(reqs)) =>
                      /\ Len(tracks) = 0 => Len(reqs) = 0
                      /\ result.value.items[i].audioFeatures =
                            [danceability |-> Q(0, 1), energy |-> Q(0, 1),
                             tempo |-> Q(0, 1), valence |-> Q(0, 1)]

\* a page of a playlist of more than 100 tracks whose two lookups succeeded
\* and one whose second lookup failed
C7_Witness ==
    /\ Returned
    /\ Len(result.value.items) = 2
    /\ Len(sf[1].results) = 2 /\ ~HasError(sf[1].results[1]) /\ ~HasError(sf[1].results[2])
    /\ Len(sf[2].results) = 2 /\ ~HasError(sf[2].results[1]) /\ HasError(sf[2].results[2])

\* a playlist without tracks was returned
C7_WitnessNoTracks ==
    /\ Returned
    /\ Len(result.value.items) = 1
    /\ Len(wire[3].res.tracks.items) = 0

----------------------------------------------------------------------------
(* Properties of the audio-features lookups                                *)

IsZero(x) == x.n = 0

\* C8: an error answer to an audio-features lookup does not make the call
\* fail: getRecommendations returns every recommended track, in order, with
\* all-zero features; getPlaylists, every playlist fetch having succeeded,
\* returns the playlists of its page.
C8_LookupFailureAbsorbed ==
    /\ (/\ op = "getRecommendations" /\ pc = "done"
        /\ Len(wire) = 2 /\ HasError(wire[2].res)) =>
            /\ result.kind = "ok"
            /\ Len(result.value) = Len(wire[1].res.tracks)
            /\ \A i \in 1..Len(result.value) :
                  /\ result.value[i].id = wire[1].res.tracks[i].id
                  /\ result.value[i].uri = wire[1].res.tracks[i].uri
                  /\ IsZero(result.value[i].danceability)
                  /\ IsZero(result.value[i].energy)
                  /\ IsZero(result.value[i].valence)
                  /\ IsZero(result.value[i].tempo)
    /\ (/\ op = "getPlaylists" /\ pc = "done"
        /\ \E i \in 1..Len(wire) :
              wire[i].kind = "audioFeatures" /\ ~Pending(wire[i]) /\ HasError(wire[i].res)
        /\ \A i \in 1..Len(wire) : wire[i].kind = "getPlaylist" => ~HasError(wire[i].res)) =>
            /\ result.kind = "ok"
            /\ Len(result.value.items) = Len(loc.items)
            /\ \A i \in 1..Len(loc.items) : result.value.items[i].id = loc.items[i].spotifyId

\* two tracks were recommended and the lookup of their features failed
C8_Witness ==
    /\ op = "getRecommendations" /\ pc = "done"
    /\ Len(wire) = 2 /\ HasError(wire[2].res)
    /\ Len(wire[1].res.tracks) = 2
    /\ result.kind = "ok"

\* a page of two playlists was returned although a lookup failed for each
C8_WitnessGetPlaylists ==
    /\ Returned
    /\ Len(result.value.items) = 2
    /\ sf[1].results # <<>> /\ HasError(sf[1].results[1])
    /\ sf[2].results # <<>> /\ HasError(sf[2].results[1])

----------------------------------------------------------------------------
(* Properties of search                                                    *)

\* the query is empty or consists of whitespace only
Blank(q) == \A i \in 1..Len(q) : q[i] = " "

SearchCalled == op = "search" /\ SearchInputValid(input) /\ pc # "input"

\* C9: a search call whose query is empty or blank returns the empty list
\* and issues no request.
C9_BlankQueryShortCircuits ==
    (SearchCalled /\ Blank(input.q)) =>
        /\ wire = <<>>
        /\ pc = "done" => result = [kind |-> "ok", value |-> <<>>]
        /\ pc \in {"start", "done"}

\* a query of two spaces was answered
C9_Witness ==
    /\ SearchCalled /\ pc = "done"
    /\ input.q = <<" ", " ">>
    /\ result.kind = "ok"

\* C10: a search call with a non-blank query fails with the kind the status
\* table gives for the upstream status (internal error when unmapped) on an
\* error response, fails with not-found on zero tracks, and otherwise
\* returns one normalized track per upstream item in upstream order; it
\* never returns an empty list.
C10_SearchOutcome ==
    (SearchCalled /\ ~Blank(input.q) /\ pc = "done") =>
        LET res == wire[1].res
        IN  /\ Len(wire) = 1 /\ ~Pending(wire[1])
            /\ wire[1].arg.q = input.q
            /\ HasError(res) =>
                  /\ result.kind = "error"
                  /\ res.error.status \in DOMAIN TRPC_ERROR_CODE_KEY_BY_HTTP_STATUS =>
                        result.code = TRPC_ERROR_CODE_KEY_BY_HTTP_STATUS[res.error.status]
                  /\ res.error.status \notin DOMAIN TRPC_ERROR_CODE_KEY_BY_HTTP_STATUS =>
                        result.code = "INTERNAL_SERVER_ERROR"
            /\ (~HasError(res) /\ Len(res.tracks.items) = 0) =>
                  result.kind = "error" /\ result.code = "NOT_FOUND"
            /\ (~HasError(res) /\ Len(res.tracks.items) > 0) =>
                  /\ result.kind = "ok"
                  /\ Len(result.value) = Len(res.tracks.items)
                  /\ \A i \in 1..Len(result.value) :
                        /\ result.value[i].id = res.tracks.items[i].id
                        /\ result.value[i].uri = res.tracks.items[i].uri
                        /\ result.value[i].name = res.tracks.items[i].name
                        /\ Len(result.value[i].artists) = Len(res.tracks.items[i].artists)
                        /\ \A a \in 1..Len(result.value[i].artists) :
                              result.value[i].artists[a] = res.tracks.items[i].artists[a].name
                        /\ result.value[i].albumName = res.tracks.items[i].album.name
                        /\ result.value[i].image.width = 64
                        /\ result.value[i].duration = res.tracks.items[i].duration_ms
            /\ result.kind = "ok" => Len(result.value) > 0

\* a non-blank query found no track
C10_Witness ==
    /\ SearchCalled /\ pc = "done" /\ ~Blank(input.q)
    /\ ~HasError(wire[1].res) /\ Len(wire[1].res.tracks.items) = 0
    /\ result.kind = "error"

\* a non-blank query was answered with a status the table does not hold
C10_WitnessUnmapped ==
    /\ SearchCalled /\ pc = "done" /\ ~Blank(input.q)
    /\ HasError(wire[1].res) /\ wire[1].res.error.status = 418
    /\ result.kind = "error"

\* a non-blank query returned two tracks
C10_WitnessTracks ==
    /\ SearchCalled /\ pc = "done" /\ ~Blank(input.q)
    /\ result.kind = "ok" /\ Len(result.value) = 2

----------------------------------------------------------------------------
(* Properties of the error paths                                           *)

\* the playlist fetches of the page that were answered with an error body
FailedPlaylistFetches ==
    {i \in 1..Len(wire) : wire[i].kind = "getPlaylist" /\ ~Pending(wire[i])
                          /\ HasError(wire[i].res)}

\* C11: when a playlist fetch of the page is answered with an error,
\* getPlaylists fails with the kind the status table gives for the upstream
\* status (internal error when unmapped) and the message "<status>! <message>",
\* as search, getRecommendations and the playlist-create call do.
C11_PlaylistFetchErrorMapped ==
    (op = "getPlaylists" /\ pc = "done" /\ FailedPlaylistFetches # {}) =>
        \E i \in FailedPlaylistFetches :
            /\ result.kind = "error"
            /\ result.code = ErrorCode(wire[i].res.error.status)
            /\ result.message = <<ErrorText(wire[i].res)>>

----------------------------------------------------------------------------
(* Properties of input validation                                          *)

\* the input is outside the ranges the claim names
OutOfRange ==
    \/ op = "createPlaylist" /\ Len(input.uris) = 0
    \/ op = "getRecommendations"
         /\ (Len(input.trackSeeds) > 5 \/ input.limit < 1 \/ input.limit > 100)
    \/ op = "getPlaylists" /\ input.limit # None
         /\ (input.limit.value < 1 \/ input.limit.value > 100)

\* C12: a call with out-of-range input never issues a network request or a
\* store call (createPlaylist with no uris creates no upstream playlist,
\* getRecommendations with more than 5 seeds or a limit outside 1..100 sends
\* nothing, getPlaylists with a limit outside 1..100 reads nothing), and it
\* ends rejected.
C12_OutOfRangeRejectedFirst ==
    OutOfRange =>
        /\ wire = <<>>
        /\ sf = <<>>
        /\ pc \in {"input", "done"}
        /\ pc = "done" => result = BadRequest
        /\ op = "createPlaylist" => upstream = SpotifyIds(store)

\* createPlaylist without uris was rejected
C12_Witness ==
    /\ op = "createPlaylist" /\ Len(input.uris) = 0
    /\ pc = "done" /\ result = BadRequest

\* getRecommendations with six seeds was rejected
C12_WitnessSeeds ==
    /\ op = "getRecommendations" /\ Len(input.trackSeeds) = 6 /\ input.limit = 1
    /\ pc = "done" /\ result = BadRequest

\* getPlaylists with limit 101 was rejected
C12_WitnessLimit ==
    /\ op = "getPlaylists" /\ input.limit = [value |-> 101]
    /\ pc = "done" /\ result = BadRequest

----------------------------------------------------------------------------
(* Properties of getRecommendations                                        *)

RecommendationsCalled ==
    op = "getRecommendations" /\ GetRecommendationsInputValid(input) /\ pc # "input"

\* C13: a getRecommendations call with an empty seed list returns the empty
\* list and issues no request, neither for recommendations nor for audio
\* features.
C13_NoSeedsShortCircuits ==
    (RecommendationsCalled /\ Len(input.trackSeeds) = 0) =>
        /\ wire = <<>>
        /\ pc \in {"start", "done"}
        /\ pc = "done" => result = [kind |-> "ok", value |-> <<>>]

\* a call without seeds, with targets given, was answered
C13_Witness ==
    /\ RecommendationsCalled /\ Len(input.trackSeeds) = 0
    /\ IsGiven(input.danceability)
    /\ pc = "done" /\ result.kind = "ok"

----------------------------------------------------------------------------
(* Properties of the total and of paging through the store                 *)

\* the records the call's ownership filter selects: all of them, or those
\* the current user created
OwnedRows ==
    {i \in 1..Len(store) : input.isCreatorOnly => store[i].createdBy = session}

\* C14: the total getPlaylists returns is the number of records matching the
\* ownership filter (all records, or those created by the current user when
\* isCreatorOnly); it is determined by the store, the user and the filter
\* alone, so it is the same for every limit and cursor; the call leaves the
\* store as it is.
C14_TotalIgnoresPaging ==
    /\ PageRead => loc.total = Cardinality(OwnedRows)
    /\ Returned => result.value.total = Cardinality(OwnedRows)
    /\ op = "getPlaylists" => upstream = SpotifyIds(store)

\* a filtered page from a cursor on returned one of three records, total two
C14_Witness ==
    /\ Returned
    /\ input.isCreatorOnly /\ input.cursor # None
    /\ Len(store) = 3
    /\ Len(result.value.items) = 1
    /\ result.value.total = 2

\* the number a decimal string stands for
StringToNumber(s) ==
    IF Len(s.frac) = 0 THEN Q(s.whole, 1)
    ELSE IF Len(s.frac) = 1 THEN Q(s.whole * 10 + s.frac[1], 10)
    ELSE Q(s.whole * 100 + s.frac[1] * 10 + s.frac[2], 100)

\* the parameter is sent exactly when the input is given, and then stands for
\* the input over scale
TargetSent(params, name, opt, scale) ==
    /\ name \in DOMAIN params <=> IsGiven(opt)
    /\ IsGiven(opt) => QEq(StringToNumber(params[name]), Q(opt.value, scale))

\* C15: in every recommendations request each bounded target given as v in
\* 0..100 is sent as v/100 (0 as 0, 50 as 0.5, 100 as 1), tempo is sent as
\* given, and a target parameter is sent exactly when its input was given.
C15_TargetsScaled ==
    (op = "getRecommendations" /\ Len(wire) >= 1) =>
        LET params == wire[1].arg
        IN  /\ wire[1].kind = "recommendations"
            /\ TargetSent(params, "target_danceability", input.danceability, 100)
            /\ TargetSent(params, "target_valence", input.valence, 100)
            /\ TargetSent(params, "target_energy", input.energy, 100)
            /\ TargetSent(params, "target_tempo", input.tempo, 1)
            /\ input.danceability = Given(0) =>
                  params["target_danceability"] = [whole |-> 0, frac |-> <<>>]
            /\ input.danceability = Given(50) =>
                  params["target_danceability"] = [whole |-> 0, frac |-> <<5>>]
            /\ input.danceability = Given(100) =>
                  params["target_danceability"] = [whole |-> 1, frac |-> <<>>]
            /\ DOMAIN params \subseteq
                  {"seed_tracks", "limit", "target_danceability", "target_valence",
                   "target_energy", "target_tempo"}

\* a request went out with danceability 50 and tempo given, valence not
C15_Witness ==
    /\ op = "getRecommendations" /\ Len(wire) >= 1
    /\ input.danceability = Given(50) /\ IsGiven(input.tempo) /\ ~IsGiven(input.valence)
    /\ wire[1].arg["target_tempo"] = [whole |-> 120, frac |-> <<>>]

----------------------------------------------------------------------------
(* Properties of the order of createPlaylist's steps                       *)

\* the positions on the wire of the requests of one kind
IndicesOf(kind) == {i \in 1..Len(wire) : wire[i].kind = kind}

\* C16: the requests of createPlaylist are issued in the order: the playlist
\* creation, the add-track batches by increasing position, the ownership
\* record insert; a batch is issued only after the creation succeeded, and
\* the insert only once every batch of the input has been answered, none of
\* them with an error.
C16_StepsInOrder ==
    op = "createPlaylist" =>
        LET adds == IndicesOf("addTracks")
            inserts == IndicesOf("playlist.create")
        IN  /\ wire # <<>> => wire[1].kind = "createPlaylist"
            /\ IndicesOf("createPlaylist") \subseteq {1}
            /\ adds \cup inserts \cup IndicesOf("createPlaylist") = 1..Len(wire)
            /\ adds # {} => Created
            /\ \A i \in adds, j \in adds :
                  i < j => /\ wire[i].arg.position < wire[j].arg.position
                           /\ ~Pending(wire[i])
            /\ \A j \in inserts :
                  /\ j = Len(wire) /\ Cardinality(inserts) = 1
                  /\ Created
                  /\ adds = 2..(j - 1)
                  /\ Cardinality(adds) = Ceil(Len(input.uris), 100)
                  /\ \A i \in adds : ~Pending(wire[i]) /\ ~HasError(wire[i].res)

\* the insert was issued after the three batches of a 201-uri list succeeded
C16_Witness ==
    /\ op = "createPlaylist" /\ pc = "awaitInsert"
    /\ Len(input.uris) = 201
    /\ Len(wire) = 5 /\ wire[5].kind = "playlist.create" /\ Pending(wire[5])
    /\ wire[4].arg.position = 200

----------------------------------------------------------------------------
(* Properties of the concurrent fetches of getPlaylists                    *)

\* the playlist whose tracks an audio-features request asks for
PlaylistOfRequest(e) == e.arg.ids[1] \div 1000

FeatureIndices == IndicesOf("audioFeatures")

\* C17: in getPlaylists two audio-features requests of the same playlist are
\* never in flight together: the later one is issued only after the earlier
\* one was answered. Requests of different playlists of the page may be in
\* flight together (C17_Witness).
C17_SamePlaylistSequential ==
    op = "getPlaylists" =>
        \A i \in FeatureIndices, j \in FeatureIndices :
            (i < j /\ PlaylistOfRequest(wire[i]) = PlaylistOfRequest(wire[j])) =>
                ~Pending(wire[i])

\* requests of two playlists of 101 tracks are in flight together, the second
\* batch of one beside the first batch of the other
C17_Witness ==
    /\ op = "getPlaylists" /\ pc = "awaitAudioFeatures"
    /\ \E i \in FeatureIndices, j \in FeatureIndices :
          /\ Pending(wire[i]) /\ Pending(wire[j])
          /\ PlaylistOfRequest(wire[i]) # PlaylistOfRequest(wire[j])
          /\ Len(wire[i].arg.ids) = 1 /\ Len(wire[j].arg.ids) = 100
          /\ \E k \in FeatureIndices :
                k < i /\ PlaylistOfRequest(wire[k]) = PlaylistOfRequest(wire[i])

----------------------------------------------------------------------------
(* Properties of the listing page                                          *)

\* the record is the all-zero sentinel
AllZero(audioFeatures) ==
    /\ IsZero(audioFeatures.danceability) /\ IsZero(audioFeatures.energy)
    /\ IsZero(audioFeatures.tempo) /\ IsZero(audioFeatures.valence)

\* C18: the listing page hides the feature meters of a playlist exactly when
\* its audioFeatures record is the all-zero sentinel; a record with at least
\* one non-zero field is shown with its meters.
C18_HiddenIffAllZero ==
    \A k \in 1..Len(ui.list) :
        ui.list[k].meters <=> ~AllZero(ui.list[k].audioFeatures)

\* the list shows a playlist with its meters and one, all zero, without
C18_Witness ==
    /\ Len(ui.list) = 2
    /\ ui.list[1].meters /\ ~AllZero(ui.list[1].audioFeatures)
    /\ ~ui.list[2].meters /\ AllZero(ui.list[2].audioFeatures)

\* the list hides the meters of a playlist whose energy alone is zero
C18_WitnessHidden ==
    \E k \in 1..Len(ui.list) :
        /\ ~ui.list[k].meters
        /\ IsZero(ui.list[k].audioFeatures.energy)
        /\ ~IsZero(ui.list[k].audioFeatures.danceability)
        /\ ~IsZero(ui.list[k].audioFeatures.tempo)
        /\ ~IsZero(ui.list[k].audioFeatures.valence)

\* the records the ownership filter selects, newest first
OwnedDescending ==
    LET newestFirst == [k \in 1..Len(store) |-> store[Len(store) + 1 - k]]
    IN  SelectSeq(newestFirst, LAMBDA r : input.isCreatorOnly => r.createdBy = session)

\* the playlists of the pages loaded so far, in the order loaded
Listed == playlistsOf(ui.pages)

\* C19: paging through getPlaylists from no cursor by passing on each
\* returned nextCursor, over an unchanged store, lists the records matching
\* the ownership filter newest first without skipping or repeating one: what
\* is loaded is always the first records of that order, a page that is not
\* the last holds exactly limit of them, so the calls end after
\* ceil(matching/limit) pages (one page when nothing matches), and when the
\* last page has no nextCursor every matching record has been listed once.
C19_PagingCoversEachOnce ==
    (op = "getPlaylists" /\ ui.pages # <<>>) =>
        LET limit == input.limit.value
            m == Len(OwnedDescending)
        IN  /\ Len(Listed) <= m
            /\ \A k \in 1..Len(Listed) : Listed[k].id = OwnedDescending[k].spotifyId
            /\ \A p \in 1..(Len(ui.pages) - 1) :
                  Len(ui.pages[p].items) = limit /\ ui.pages[p].nextCursor # None
            /\ hasNextPage(ui.pages) =>
                  Len(Listed) = limit * Len(ui.pages) /\ Len(Listed) < m
            /\ ~hasNextPage(ui.pages) =>
                  /\ Len(Listed) = m
                  /\ Len(ui.pages) = IF m = 0 THEN 1 ELSE Ceil(m, limit)
            /\ Len(ui.pages) <= m + 1

\* two pages of one record each were loaded and the second was the last
C19_Witness ==
    /\ op = "getPlaylists" /\ pc = "rendered"
    /\ Len(ui.pages) = 2 /\ ~hasNextPage(ui.pages)
    /\ input.limit.value = 1
    /\ Len(Listed) = 2
    /\ Listed[1].id = SpotifyIdOf(2) /\ Listed[2].id = SpotifyIdOf(1)

----------------------------------------------------------------------------
(* Properties of a rejected playlist creation                              *)

\* the create request of createPlaylist was answered with an error body
CreateRejected ==
    /\ op = "createPlaylist" /\ Len(wire) >= 1
    /\ wire[1].kind = "createPlaylist"
    /\ ~Pending(wire[1]) /\ HasError(wire[1].res)

\* C20: when the playlist-create call is answered with an error,
\* createPlaylist fails with the kind the status table gives for the status
\* (internal error when unmapped) and does nothing more: no add-track request
\* is issued, no insert is attempted, no record is stored and no playlist
\* was created upstream.
C20_RejectedCreateHasNoEffect ==
    CreateRejected =>
        LET status == wire[1].res.error.status
        IN  /\ pc = "done"
            /\ result.kind = "error"
            /\ status \in DOMAIN TRPC_ERROR_CODE_KEY_BY_HTTP_STATUS =>
                  result.code = TRPC_ERROR_CODE_KEY_BY_HTTP_STATUS[status]
            /\ status \notin DOMAIN TRPC_ERROR_CODE_KEY_BY_HTTP_STATUS =>
                  result.code = "INTERNAL_SERVER_ERROR"
            /\ result.message = <<<<status, "! ", wire[1].res.error.message>>>>
            /\ Len(wire) = 1
            /\ sf = <<>>
            /\ Len(store) <= MaxStore
            /\ SpotifyIds(store) = upstream

\* a call with 201 uris was turned down with status 429 over a store of one record
C20_Witness ==
    /\ CreateRejected
    /\ wire[1].res.error.status = 429
    /\ Len(input.uris) = 201
    /\ Len(store) = 1
    /\ result.code = "RATE_LIMITED"

----------------------------------------------------------------------------
(* Properties of the order of the items of getPlaylists                    *)

\* the place on the wire of the playlist fetch made for an upstream id
PlaylistFetchOf(spotifyId) ==
    CHOOSE i \in IndicesOf("getPlaylist") : wire[i].arg.id = spotifyId

\* the audio-features requests of one playlist that were answered, in order
AnsweredFeatureRequests(playlistId) ==
    SelectSeq(FeatureRequests(playlistId), LAMBDA e : ~Pending(e))

\* C21: whatever the order in which the answers to the concurrent fetches of
\* getPlaylists arrive, the i-th returned item is built from the i-th record
\* of the page: the playlist fetches are issued one per record in the order
\* of the records, the k-th batch fetcher collects the answers to the
\* requests for the tracks of the k-th record's playlist and of no other,
\* and the i-th item has the id, the name and the cover of the playlist that
\* was fetched for the i-th record's upstream id and the average of the
\* answers to the requests for exactly that playlist's tracks.
C21_ItemsFollowRecords ==
    PageRead =>
        /\ \A k \in 1..Len(loc.items) :
              /\ loc.items[k] = store[NthMatching(k)]
              /\ wire[2 + k].kind = "getPlaylist"
              /\ wire[2 + k].arg.id = loc.items[k].spotifyId
              /\ PlaylistFetchOf(loc.items[k].spotifyId) = 2 + k
        /\ \A j \in 1..Len(sf) :
              sf[j].results =
                  Map(AnsweredFeatureRequests(loc.items[j].spotifyId), LAMBDA e : e.res)
        /\ Returned =>
              /\ Len(result.value.items) = Len(loc.items)
              /\ \A i \in 1..Len(loc.items) :
                    LET record == loc.items[i]
                        fetched == wire[PlaylistFetchOf(record.spotifyId)].res
                        reqs == FeatureRequests(record.spotifyId)
                        item == result.value.items[i]
                    IN  /\ fetched.id = record.spotifyId
                        /\ item.id = fetched.id
                        /\ item.name = fetched.name
                        /\ item.image = fetched.images[2]
                        /\ FetchedInBatches(fetched.tracks.items, reqs)
                        /\ item.audioFeatures =
                              averageAudioFeaturesOf(Map(reqs, LAMBDA e : e.res))

\* a page of two playlists of 101 tracks was returned after the first answer
\* about the second playlist's tracks arrived before the first answer about
\* the first playlist's tracks (the second batch of the second playlist was
\* requested before the second batch of the first), and the two items differ
C21_Witness ==
    /\ Returned
    /\ Len(result.value.items) = 2
    /\ result.value.items[1].id = loc.items[1].spotifyId
    /\ result.value.items[2].id = loc.items[2].spotifyId
    /\ result.value.items[1].audioFeatures # result.value.items[2].audioFeatures
    /\ \E a1 \in FeatureIndices, b1 \in FeatureIndices,
          b2 \in FeatureIndices, a2 \in FeatureIndices :
          /\ a1 < b1 /\ b1 < b2 /\ b2 < a2
          /\ PlaylistOfRequest(wire[a1]) = loc.items[1].spotifyId
          /\ PlaylistOfRequest(wire[a2]) = loc.items[1].spotifyId
          /\ PlaylistOfRequest(wire[b1]) = loc.items[2].spotifyId
          /\ PlaylistOfRequest(wire[b2]) = loc.items[2].spotifyId

\* the playlist of the second record was answered while the fetch of the
\* first record's playlist is still in flight
C21_WitnessPlaylists ==
    /\ op = "getPlaylists" /\ pc = "awaitPlaylists"
    /\ Len(loc.items) = 2
    /\ Pending(wire[3])
    /\ ~Pending(wire[4]) /\ ~HasError(wire[4].res)
    /\ wire[4].res.id = loc.items[2].spotifyId

====
